---- MODULE Spec2Model ----
(***************************************************************************)
(* A model of HttpDownloader (src/main.go): the capability probe, the      *)
(* choice between the single-stream and the multi-range download, the      *)
(* range planner Split, the per-range goroutines (download / save2file),   *)
(* the progress goroutine fed by the buffered channel `success`, and the   *)
(* WaitGroup barrier.  Every log.Fatal / log.Fatalf ends the whole process *)
(* (os.Exit(1)): no deferred function runs and no goroutine takes another  *)
(* step.  The return of main ends the process as well, whatever the other  *)
(* goroutines are doing.                                                   *)
(*                                                                         *)
(* The remote server and the file system are the environment.  A file      *)
(* offset o (0-based, as in the code) is index o+1 of the sequences here.  *)
(***************************************************************************)
EXTENDS Integers, Sequences, FiniteSets, TLC

\* ---------------------------------------------------------------- bounds
\* Largest resource length (bytes) of a whole run.
MaxLen == 3
\* Largest value of the -n flag of a whole run.
MaxWorkers == 2
\* Largest totalLength / workerCount handed to the planner alone (SplitSpec).
PlanMaxLen == 24
PlanMaxWorkers == 6

\* Task 0 is the inline save2file call of the single-stream path (line 75);
\* tasks 1..numRoutines are the goroutines of lines 83-89.
Tasks == 0..MaxWorkers
RangeTasks == 1..MaxWorkers

VARIABLES
    resource,       \* the remote resource's bytes
    srvAcceptRanges,\* the values of the HEAD response's Accept-Ranges header
    srvLength,      \* Content-Length of the HEAD response (-1: unknown)
    numThreads,     \* the -n flag
    pc,             \* where the main goroutine is
    proc,           \* "running" | "exit0" | "fatal" | "panic"
    fatalBy,        \* the task whose log.Fatal ended the process (-1: none)
    fatalAt,        \* the source line of that log.Fatal call (0: none)
    contentLength,  \* h.contentLength
    acceptRanges,   \* h.acceptRanges
    numRoutines,    \* h.numRoutines
    fileExists,     \* the destination file exists
    file,           \* the destination file's bytes
    planned,        \* number of calls of Split
    ranges,         \* the value Split returned
    launched,       \* number of range goroutines started
    unrangedGets,   \* number of http.Get calls (line 71)
    tpc,            \* where each task is
    req,            \* the Range header each task sent: <<start, end>>
    resp,           \* the response each task received
    pos,            \* the offset of each task's own file handle
    writes,         \* the writes done: <<task, offset, length>>
    wg,             \* the WaitGroup counter
    chanBuf,        \* number of values buffered in `success`
    chanClosed,     \* `success` is closed
    sent,           \* number of values each task sent on `success`
    ppc,            \* where the progress goroutine is
    countSuccess,   \* countSuccess of the progress goroutine
    emitted         \* the snapshots printed so far

envVars == <<resource, srvAcceptRanges, srvLength, numThreads, fatalBy,
            fatalAt>>
hVars == <<contentLength, acceptRanges, numRoutines>>
fileVars == <<fileExists, file, writes>>
taskVars == <<tpc, req, resp, pos>>
chanVars == <<wg, chanBuf, chanClosed, sent>>
progVars == <<ppc, countSuccess, emitted>>
vars == <<resource, srvAcceptRanges, srvLength, numThreads, fatalBy, fatalAt,
          pc, proc,
          contentLength, acceptRanges, numRoutines, fileExists, file,
          planned, ranges, launched, unrangedGets, tpc, req, resp, pos,
          writes, wg, chanBuf, chanClosed, sent, ppc, countSuccess, emitted>>

\* ------------------------------------------------------------- helpers
\* Go's integer division truncates toward zero (TLA+'s \div floors).
GoDiv(a, b) ==
    IF (a >= 0) = (b > 0)
    THEN (IF a >= 0 THEN a ELSE -a) \div (IF b > 0 THEN b ELSE -b)
    ELSE -((IF a >= 0 THEN a ELSE -a) \div (IF b > 0 THEN b ELSE -b))

Min(a, b) == IF a <= b THEN a ELSE b
Max(a, b) == IF a >= b THEN a ELSE b

\* The resource of a given length: the byte at offset o is o+1, so that a
\* byte written at a wrong offset, and a hole (0), are visible.
ResourceOf(len) == [i \in 1..len |-> i]

\* The bytes of offsets lo..hi of s (empty when lo > hi).
Slice(s, lo, hi) == [i \in 1..(hi - lo + 1) |-> s[lo + i]]

\* The body of a non-success response: not the resource's bytes.
ErrorBody == <<255>>


\* ---------------------------------------------------------- the server
\* What the server may answer to the GET of line 138 with the header
\* "Range: bytes=<start>-<end>".  A range the resource satisfies is answered
\* with exactly its bytes (206) or with a non-success status and an error
\* body.  "bytes=0--1" and the like (start > end) is no range at all: the
\* server either ignores the header and sends the whole resource (200), or
\* rejects the request (416) with an error body.
RangedReplies(R, start, end) ==
    IF 0 <= start /\ start <= end /\ start < Len(R)
    THEN { [status |-> 206, body |-> Slice(R, start, Min(end, Len(R) - 1))],
           [status |-> 500, body |-> ErrorBody] }
    ELSE { [status |-> 200, body |-> R],
           [status |-> 416, body |-> ErrorBody] }

\* What the server may answer to the unranged GET of line 71.
UnrangedReplies(R) ==
    { [status |-> 200, body |-> R], [status |-> 500, body |-> ErrorBody] }

NoResp == [status |-> 0, body |-> <<>>]

Success(r) == r.status \in {200, 206}

\* ------------------------------------------------------------ the file
\* f.Write(content) on a handle at offset off: the bytes land at
\* off..off+len-1, a gap past the old end of the file reads as zeros, and
\* every other byte stays.  Writing nothing changes nothing.
WriteAt(f, off, content) ==
    IF Len(content) = 0 THEN f
    ELSE [i \in 1..Max(Len(f), off + Len(content)) |->
            IF off < i /\ i <= off + Len(content) THEN content[i - off]
            ELSE IF i <= Len(f) THEN f[i] ELSE 0]

\* --------------------------------------------------------- the planner
\* Split with the override of line 122 left out: the last range ends with
\* its block, as the others do.
SplitNoRemainder(totalLength, workerCount) ==
    LET blockSize == GoDiv(totalLength, workerCount)
    IN  [k \in 1..workerCount |->
            <<(k - 1) * blockSize, k * blockSize - 1>>]

\* Split with line 119 off by one: end = (i+1)*blockSize.
SplitEndOffByOne(totalLength, workerCount) ==
    LET blockSize == GoDiv(totalLength, workerCount)
    IN  [k \in 1..workerCount |->
            <<(k - 1) * blockSize,
              IF k = workerCount THEN totalLength - 1 ELSE k * blockSize>>]

\* Split with the loop of line 117 stopping at a range that would be empty.
SplitSkipsEmpty(totalLength, workerCount) ==
    LET blockSize == GoDiv(totalLength, workerCount)
    IN  IF blockSize = 0 THEN << <<0, totalLength - 1>> >>
        ELSE [k \in 1..workerCount |->
                <<(k - 1) * blockSize,
                  IF k = workerCount THEN totalLength - 1
                  ELSE k * blockSize - 1>>]

\* Split (lines 113-127): numRoutines ranges <<start, end>>, in the order
\* of the loop.
Split(totalLength, workerCount) ==
    LET blockSize == GoDiv(totalLength, workerCount)
    IN  [k \in 1..workerCount |->
            LET i == k - 1
            IN  <<i * blockSize,
                  IF i = workerCount - 1 THEN totalLength - 1
                  ELSE (i + 1) * blockSize - 1>>]

\* Line 98 with the division done on the integers, before the conversion:
\* float64(countSuccess / h.numRoutines) * 100.
SnapshotIntDiv(count, total) ==
    [at |-> "loop", count |-> count, num |-> GoDiv(count, total) * 100,
     den |-> 1, bar |-> GoDiv(count, total) * 100]

\* The snapshot printed in the loop (lines 97-101): currProgress as the
\* exact fraction num/den, and the width of the bar, int(currProgress).
Snapshot(count, total) ==
    [at |-> "loop", count |-> count, num |-> count * 100, den |-> total,
     bar |-> GoDiv(count * 100, total)]

\* The first (line 94) and the last (line 103) snapshot.
FirstSnapshot ==
    [at |-> "first", count |-> 0, num |-> 0, den |-> 1, bar |-> 0]

FinalSnapshot(count) ==
    [at |-> "final", count |-> count, num |-> 100, den |-> 1, bar |-> 100]

\* ---------------------------------------------------------------- Init
\* The state when main calls NewDownloader (line 181): the flags are
\* parsed and the URL is valid.
Init ==
    /\ \E len \in 0..MaxLen : resource = ResourceOf(len)
    /\ srvAcceptRanges \in {<<>>, <<"none">>, <<"bytes">>}
    /\ srvLength \in {Len(resource), -1}
    /\ numThreads \in (-1)..MaxWorkers
    /\ pc = "head"
    /\ proc = "running"
    /\ fatalBy = -1
    /\ fatalAt = 0
    /\ contentLength = 0
    /\ acceptRanges = FALSE
    /\ numRoutines = 0
    /\ fileExists = FALSE
    /\ file = <<>>
    /\ planned = 0
    /\ ranges = <<>>
    /\ launched = 0
    /\ unrangedGets = 0
    /\ tpc = [t \in Tasks |-> "idle"]
    /\ req = [t \in Tasks |-> <<0, 0>>]
    /\ resp = [t \in Tasks |-> NoResp]
    /\ pos = [t \in Tasks |-> 0]
    /\ writes = {}
    /\ wg = 0
    /\ chanBuf = 0
    /\ chanClosed = FALSE
    /\ sent = [t \in Tasks |-> 0]
    /\ ppc = "idle"
    /\ countSuccess = 0
    /\ emitted = <<>>

\* The variables of the environment that no step changes.
inputVars == <<resource, srvAcceptRanges, srvLength, numThreads>>

\* The call of line `line` logging only (log.Printf), not exiting.
FatalLogOnly(t, line) ==
    /\ fatalBy' = t
    /\ fatalAt' = line
    /\ UNCHANGED <<inputVars, pc, proc, hVars, fileVars, planned, ranges,
                   launched, unrangedGets, taskVars, chanVars, progVars>>

\* The call of line `line` ending the calling goroutine only
\* (log.Printf and runtime.Goexit), not the process.
FatalGoexit(t, line) ==
    /\ fatalBy' = t
    /\ fatalAt' = line
    /\ tpc' = [tpc EXCEPT ![t] = "dead"]
    /\ UNCHANGED <<inputVars, pc, proc, hVars, fileVars, planned, ranges,
                   launched, unrangedGets, req, resp, pos, chanVars, progVars>>

\* log.Fatal / log.Fatalf at line `line`, called by task t (0: the main
\* goroutine): os.Exit(1).  Nothing else changes.
Fatal(t, line) ==
    /\ proc' = "fatal"
    /\ fatalBy' = t
    /\ fatalAt' = line
    /\ UNCHANGED <<inputVars, pc, hVars, fileVars, planned, ranges, launched,
                   unrangedGets, taskVars, chanVars, progVars>>

\* A run-time panic of the main goroutine: the process crashes.
Panic ==
    /\ proc' = "panic"
    /\ UNCHANGED <<envVars, pc, hVars, fileVars, planned, ranges, launched,
                   unrangedGets, taskVars, chanVars, progVars>>

\* ------------------------------------------------- the main goroutine
\* NewDownloader with line 54 testing only that the header is there.
NewDownloaderAnyHeader ==
    /\ proc = "running" /\ pc = "head"
    /\ \/ /\ contentLength' = srvLength
          /\ numRoutines' = numThreads
          /\ acceptRanges' = (Len(srvAcceptRanges) # 0)
          /\ pc' = "create"
          /\ UNCHANGED <<envVars, proc, fileVars, planned, ranges, launched,
                         unrangedGets, taskVars, chanVars, progVars>>
       \/ Fatal(0, 43)

\* NewDownloader (lines 36-57): the HEAD request and the fields of h.
NewDownloader ==
    /\ proc = "running" /\ pc = "head"
    /\ \/ /\ contentLength' = srvLength
          /\ numRoutines' = numThreads
          /\ acceptRanges' = (Len(srvAcceptRanges) # 0
                                /\ srvAcceptRanges[1] = "bytes")
          /\ pc' = "create"
          /\ UNCHANGED <<envVars, proc, fileVars, planned, ranges, launched,
                         unrangedGets, taskVars, chanVars, progVars>>
       \/ Fatal(0, 43)

\* Download, lines 62-69: os.Create truncates the file; then the branch.
DownloadCreate ==
    /\ proc = "running" /\ pc = "create"
    /\ \/ /\ fileExists' = TRUE
          /\ file' = <<>>
          /\ pc' = IF acceptRanges = FALSE THEN "get" ELSE "makechan"
          /\ UNCHANGED <<envVars, proc, hVars, writes, planned, ranges,
                         launched, unrangedGets, taskVars, chanVars, progVars>>
       \/ Fatal(0, 64)

\* Download, lines 71-75: the unranged GET, then save2file(filename, 0, resp)
\* called inline (task 0).
DownloadGet ==
    /\ proc = "running" /\ pc = "get"
    /\ \/ /\ \E r \in UnrangedReplies(resource) :
                resp' = [resp EXCEPT ![0] = r]
          /\ unrangedGets' = unrangedGets + 1
          /\ req' = [req EXCEPT ![0] = <<0, -1>>]
          /\ tpc' = [tpc EXCEPT ![0] = "open"]
          /\ pc' = "save"
          /\ UNCHANGED <<envVars, proc, hVars, fileVars, planned, ranges,
                         launched, pos, chanVars, progVars>>
       \/ Fatal(0, 73)

\* Download, line 75 returns: the single-stream path is over.
DownloadSaved ==
    /\ proc = "running" /\ pc = "save" /\ tpc[0] = "saved"
    /\ pc' = "returned"
    /\ UNCHANGED <<envVars, proc, hVars, fileVars, planned, ranges, launched,
                   unrangedGets, taskVars, chanVars, progVars>>

\* Download, line 79: make(chan bool, h.numRoutines) panics on a negative
\* size.
DownloadMakeChan ==
    /\ proc = "running" /\ pc = "makechan"
    /\ IF numRoutines < 0 THEN Panic
       ELSE /\ pc' = "split"
            /\ UNCHANGED <<envVars, proc, hVars, fileVars, planned, ranges,
                           launched, unrangedGets, taskVars, chanVars,
                           progVars>>

\* Download, line 80: h.Split(), called once; line 116 divides by
\* h.numRoutines and panics, inside Split, when it is 0.
DownloadSplit ==
    /\ proc = "running" /\ pc = "split"
    /\ IF numRoutines = 0
       THEN /\ proc' = "panic"
            /\ planned' = planned + 1
            /\ UNCHANGED <<envVars, pc, hVars, fileVars, ranges, launched,
                           unrangedGets, taskVars, chanVars, progVars>>
       ELSE /\ ranges' = Split(contentLength, numRoutines)
            /\ planned' = planned + 1
            /\ pc' = "launch"
            /\ UNCHANGED <<envVars, proc, hVars, fileVars, launched,
                           unrangedGets, taskVars, chanVars, progVars>>

\* The iteration without the wg.Add(1) of line 82.
DownloadLaunchNoAdd ==
    /\ proc = "running" /\ pc = "launch" /\ launched < Len(ranges)
    /\ launched' = launched + 1
    /\ tpc' = [tpc EXCEPT ![launched + 1] = "do"]
    /\ req' = [req EXCEPT ![launched + 1] = ranges[launched + 1]]
    /\ UNCHANGED <<envVars, pc, proc, hVars, fileVars, planned, ranges,
                   unrangedGets, resp, pos, chanVars, progVars>>

\* Download, lines 80-90, one iteration: wg.Add(1) and the go statement.
DownloadLaunch ==
    /\ proc = "running" /\ pc = "launch" /\ launched < Len(ranges)
    /\ wg' = wg + 1
    /\ launched' = launched + 1
    /\ tpc' = [tpc EXCEPT ![launched + 1] = "do"]
    /\ req' = [req EXCEPT ![launched + 1] = ranges[launched + 1]]
    /\ UNCHANGED <<envVars, pc, proc, hVars, fileVars, planned, ranges,
                   unrangedGets, resp, pos, chanBuf, chanClosed, sent,
                   progVars>>

\* Download, lines 93-104: the go statement of the progress goroutine.
DownloadGoProgress ==
    /\ proc = "running" /\ pc = "launch" /\ launched = Len(ranges)
    /\ ppc' = "print0"
    /\ pc' = "wait"
    /\ UNCHANGED <<envVars, proc, hVars, fileVars, planned, ranges, launched,
                   unrangedGets, taskVars, chanVars, countSuccess, emitted>>

\* Line 107 left out: Download goes on to close without waiting.
DownloadWaitNoBarrier ==
    /\ proc = "running" /\ pc = "wait"
    /\ pc' = "close"
    /\ UNCHANGED <<envVars, proc, hVars, fileVars, planned, ranges, launched,
                   unrangedGets, taskVars, chanVars, progVars>>

\* Download, line 107: wg.Wait() returns when the counter is 0.
DownloadWait ==
    /\ proc = "running" /\ pc = "wait" /\ wg = 0
    /\ pc' = "close"
    /\ UNCHANGED <<envVars, proc, hVars, fileVars, planned, ranges, launched,
                   unrangedGets, taskVars, chanVars, progVars>>

\* Download, line 108: close(success); Download returns.
DownloadClose ==
    /\ proc = "running" /\ pc = "close"
    /\ chanClosed' = TRUE
    /\ pc' = "returned"
    /\ UNCHANGED <<envVars, proc, hVars, fileVars, planned, ranges, launched,
                   unrangedGets, taskVars, wg, chanBuf, sent, progVars>>

\* main, line 185: main returns and the process exits with status 0; the
\* goroutines still running are gone.
MainReturn ==
    /\ proc = "running" /\ pc = "returned"
    /\ proc' = "exit0"
    /\ UNCHANGED <<envVars, pc, hVars, fileVars, planned, ranges, launched,
                   unrangedGets, taskVars, chanVars, progVars>>


\* -------------------------------------------------- the range goroutines
\* download, lines 131-141: the request with its Range header, and
\* http.DefaultClient.Do.  (http.NewRequest cannot fail here: the method is
\* "GET" and main has validated the URL.)
TaskDo(t) ==
    /\ proc = "running" /\ tpc[t] = "do"
    /\ \/ /\ \E r \in RangedReplies(resource, req[t][1], req[t][2]) :
                resp' = [resp EXCEPT ![t] = r]
          /\ tpc' = [tpc EXCEPT ![t] = "open"]
          /\ UNCHANGED <<envVars, pc, proc, hVars, fileVars, planned, ranges,
                         launched, unrangedGets, req, pos, chanVars, progVars>>
       \/ Fatal(t, 140)

\* save2file, lines 149-152: os.OpenFile gives the caller a handle of its
\* own, at offset 0.
SaveOpen(t) ==
    /\ proc = "running" /\ tpc[t] = "open"
    /\ \/ /\ fileExists
          /\ pos' = [pos EXCEPT ![t] = 0]
          /\ tpc' = [tpc EXCEPT ![t] = "seek"]
          /\ UNCHANGED <<envVars, pc, proc, hVars, fileVars, planned, ranges,
                         launched, unrangedGets, req, resp, chanVars, progVars>>
       \/ Fatal(t, 151)

\* Line 144 passing 0 instead of start.
OffsetOfZero(t) == 0

\* The offset save2file is called with: start (line 144), or 0 (line 75).
OffsetOf(t) == IF t = 0 THEN 0 ELSE req[t][1]

\* save2file seeking on one handle that all callers share (the f of line 62
\* passed along, instead of the os.OpenFile of line 149).
SaveSeekShared(t) ==
    /\ proc = "running" /\ tpc[t] = "seek"
    /\ \/ /\ pos' = [u \in Tasks |-> OffsetOf(t)]
          /\ tpc' = [tpc EXCEPT ![t] = "read"]
          /\ UNCHANGED <<envVars, pc, proc, hVars, fileVars, planned, ranges,
                         launched, unrangedGets, req, resp, chanVars, progVars>>
       \/ Fatal(t, 155)

\* save2file, lines 154-156: f.Seek(offset, 0) moves this handle only.
SaveSeek(t) ==
    /\ proc = "running" /\ tpc[t] = "seek"
    /\ \/ /\ pos' = [pos EXCEPT ![t] = OffsetOf(t)]
          /\ tpc' = [tpc EXCEPT ![t] = "read"]
          /\ UNCHANGED <<envVars, pc, proc, hVars, fileVars, planned, ranges,
                         launched, unrangedGets, req, resp, chanVars, progVars>>
       \/ Fatal(t, 155)

\* save2file, lines 159-162: ioutil.ReadAll(resp.Body).
SaveRead(t) ==
    /\ proc = "running" /\ tpc[t] = "read"
    /\ \/ /\ tpc' = [tpc EXCEPT ![t] = "write"]
          /\ UNCHANGED <<envVars, pc, proc, hVars, fileVars, planned, ranges,
                         launched, unrangedGets, req, resp, pos, chanVars,
                         progVars>>
       \/ Fatal(t, 161)

\* The file after the f.Write of task t (line 164).
Written(t) == WriteAt(file, pos[t], resp[t].body)

\* save2file, lines 164-167: f.Write(content) at the handle's offset, then
\* the return (to line 75, or through download to the deferred function of
\* lines 84-87).
SaveWrite(t) ==
    /\ proc = "running" /\ tpc[t] = "write"
    /\ \/ /\ file' = Written(t)
          /\ writes' = writes \cup {<<t, pos[t], Len(resp[t].body)>>}
          /\ pos' = [pos EXCEPT ![t] = pos[t] + Len(resp[t].body)]
          /\ tpc' = [tpc EXCEPT ![t] = IF t = 0 THEN "saved" ELSE "send"]
          /\ UNCHANGED <<envVars, pc, proc, hVars, fileExists, planned,
                         ranges, launched, unrangedGets, req, resp, chanVars,
                         progVars>>
       \/ Fatal(t, 165)

\* Line 79 with a buffer one short: make(chan bool, h.numRoutines-1).
ChanCapOneShort == numRoutines - 1

\* The capacity of `success` (line 79).
ChanCap == numRoutines

\* The signal sent twice: by download when save2file has returned, and by
\* the deferred function again.
TaskSendTwice(t) ==
    /\ proc = "running" /\ tpc[t] = "send"
    /\ chanBuf < numRoutines
    /\ chanBuf' = chanBuf + 1
    /\ sent' = [sent EXCEPT ![t] = sent[t] + 1]
    /\ tpc' = [tpc EXCEPT ![t] = IF sent[t] = 0 THEN "send" ELSE "wgdone"]
    /\ UNCHANGED <<envVars, pc, proc, hVars, fileVars, planned, ranges,
                   launched, unrangedGets, req, resp, pos, wg, chanClosed,
                   progVars>>

\* The send of line 85 done on success only, not in the deferred function.
TaskSendOnSuccess(t) ==
    /\ proc = "running" /\ tpc[t] = "send"
    /\ chanBuf < numRoutines
    /\ chanBuf' = IF Success(resp[t]) THEN chanBuf + 1 ELSE chanBuf
    /\ sent' = [sent EXCEPT ![t] = IF Success(resp[t]) THEN sent[t] + 1
                                   ELSE sent[t]]
    /\ tpc' = [tpc EXCEPT ![t] = "wgdone"]
    /\ UNCHANGED <<envVars, pc, proc, hVars, fileVars, planned, ranges,
                   launched, unrangedGets, req, resp, pos, wg, chanClosed,
                   progVars>>

\* Line 85: success <- true.  The send waits while the buffer is full, and
\* panics on a closed channel.
TaskSend(t) ==
    /\ proc = "running" /\ tpc[t] = "send"
    /\ IF chanClosed THEN Panic
       ELSE /\ chanBuf < ChanCap
            /\ chanBuf' = chanBuf + 1
            /\ sent' = [sent EXCEPT ![t] = sent[t] + 1]
            /\ tpc' = [tpc EXCEPT ![t] = "wgdone"]
            /\ UNCHANGED <<envVars, pc, proc, hVars, fileVars, planned,
                           ranges, launched, unrangedGets, req, resp, pos,
                           wg, chanClosed, progVars>>

\* The deferred function without line 86: the goroutine ends, wg.Done() is
\* never called.
TaskDoneNoDone(t) ==
    /\ proc = "running" /\ tpc[t] = "wgdone"
    /\ tpc' = [tpc EXCEPT ![t] = "end"]
    /\ UNCHANGED <<envVars, pc, proc, hVars, fileVars, planned, ranges,
                   launched, unrangedGets, req, resp, pos, chanVars, progVars>>

\* Line 86: wg.Done(); the goroutine ends.
TaskDone(t) ==
    /\ proc = "running" /\ tpc[t] = "wgdone"
    /\ wg' = wg - 1
    /\ tpc' = [tpc EXCEPT ![t] = "end"]
    /\ UNCHANGED <<envVars, pc, proc, hVars, fileVars, planned, ranges,
                   launched, unrangedGets, req, resp, pos, chanBuf,
                   chanClosed, sent, progVars>>

\* ------------------------------------------------ the progress goroutine
\* Line 94: the empty bar and 0.0.
ProgressStart ==
    /\ proc = "running" /\ ppc = "print0"
    /\ emitted' = Append(emitted, FirstSnapshot)
    /\ ppc' = "loop"
    /\ UNCHANGED <<envVars, pc, proc, hVars, fileVars, planned, ranges,
                   launched, unrangedGets, taskVars, chanVars, countSuccess>>

\* Lines 96-102, one iteration: a value is received, counted and printed.
ProgressRecv ==
    /\ proc = "running" /\ ppc = "loop" /\ chanBuf > 0
    /\ chanBuf' = chanBuf - 1
    /\ countSuccess' = countSuccess + 1
    /\ emitted' = Append(emitted, Snapshot(countSuccess + 1, numRoutines))
    /\ UNCHANGED <<envVars, pc, proc, hVars, fileVars, planned, ranges,
                   launched, unrangedGets, taskVars, wg, chanClosed, sent, ppc>>

\* Line 96: the range loop ends when the channel is closed and drained.
ProgressLoopEnd ==
    /\ proc = "running" /\ ppc = "loop" /\ chanBuf = 0 /\ chanClosed
    /\ ppc' = "final"
    /\ UNCHANGED <<envVars, pc, proc, hVars, fileVars, planned, ranges,
                   launched, unrangedGets, taskVars, chanVars, countSuccess,
                   emitted>>

\* Line 103: the full bar and 100.0; the goroutine ends.
ProgressFinal ==
    /\ proc = "running" /\ ppc = "final"
    /\ emitted' = Append(emitted, FinalSnapshot(countSuccess))
    /\ ppc' = "done"
    /\ UNCHANGED <<envVars, pc, proc, hVars, fileVars, planned, ranges,
                   launched, unrangedGets, taskVars, chanVars, countSuccess>>

\* ------------------------------------------------------ specification
MainStep ==
    \/ NewDownloader
    \/ DownloadCreate
    \/ DownloadGet
    \/ DownloadSaved
    \/ DownloadMakeChan
    \/ DownloadSplit
    \/ DownloadLaunch
    \/ DownloadGoProgress
    \/ DownloadWait
    \/ DownloadClose
    \/ MainReturn

TaskStep(t) ==
    \/ SaveOpen(t)
    \/ SaveSeek(t)
    \/ SaveRead(t)
    \/ SaveWrite(t)
    \/ (t # 0 /\ TaskDo(t))
    \/ (t # 0 /\ TaskSend(t))
    \/ (t # 0 /\ TaskDone(t))

ProgressStep ==
    \/ ProgressStart
    \/ ProgressRecv
    \/ ProgressLoopEnd
    \/ ProgressFinal

Next ==
    \/ MainStep
    \/ \E t \in Tasks : TaskStep(t)
    \/ ProgressStep

Spec == Init /\ [][Next]_vars


\* The planner alone: from the state in which Download is about to call
\* h.Split() (line 80), for every totalLength in 0..PlanMaxLen and every
\* workerCount in 1..PlanMaxWorkers, the call itself.
SplitInit ==
    /\ \E len \in 0..PlanMaxLen :
          /\ resource = ResourceOf(len)
          /\ srvLength = len
          /\ contentLength = len
    /\ srvAcceptRanges = <<"bytes">>
    /\ acceptRanges = TRUE
    /\ numThreads \in 1..PlanMaxWorkers
    /\ numRoutines = numThreads
    /\ pc = "split"
    /\ proc = "running"
    /\ fatalBy = -1
    /\ fatalAt = 0
    /\ fileExists = TRUE
    /\ file = <<>>
    /\ planned = 0
    /\ ranges = <<>>
    /\ launched = 0
    /\ unrangedGets = 0
    /\ tpc = [t \in Tasks |-> "idle"]
    /\ req = [t \in Tasks |-> <<0, 0>>]
    /\ resp = [t \in Tasks |-> NoResp]
    /\ pos = [t \in Tasks |-> 0]
    /\ writes = {}
    /\ wg = 0
    /\ chanBuf = 0
    /\ chanClosed = FALSE
    /\ sent = [t \in Tasks |-> 0]
    /\ ppc = "idle"
    /\ countSuccess = 0
    /\ emitted = <<>>

SplitSpec == SplitInit /\ [][DownloadSplit]_vars

\* ------------------------------------------------------------- claims
\* The offsets of a range <<start, end>>: start..end, empty when start > end.
Offsets(r) == r[1]..r[2]

\* Split has returned, for a totalLength >= 0 and a workerCount >= 1.
Planned == planned = 1 /\ contentLength >= 0 /\ numRoutines >= 1

\* C1: for every totalLength >= 0 and workerCount >= 1 the ranges Split
\* returns are ordered by start offset, contiguous (each start is the
\* previous end + 1), pairwise disjoint, and their union is exactly
\* 0..totalLength-1.
C1_SplitPartitions ==
    Planned =>
        /\ \A i \in 1..(Len(ranges) - 1) :
              /\ ranges[i][1] <= ranges[i + 1][1]
              /\ ranges[i + 1][1] = ranges[i][2] + 1
        /\ \A i, j \in 1..Len(ranges) :
              i # j => Offsets(ranges[i]) \cap Offsets(ranges[j]) = {}
        /\ UNION {Offsets(ranges[i]) : i \in 1..Len(ranges)}
              = 0..(contentLength - 1)

\* C1's case: a length the worker count does not divide: the last range
\* absorbs the remainder.
C1_Witness ==
    /\ Planned
    /\ contentLength = 10 /\ numRoutines = 4
    /\ ranges[4] = <<6, 9>>

\* C2: Split returns exactly workerCount ranges, also when workerCount >
\* totalLength; with blockSize = totalLength div workerCount the range of
\* index i is [i*blockSize, (i+1)*blockSize-1], and the last one ends at
\* totalLength-1; (1000,3) gives [0,332],[333,665],[666,999] and (10,4)
\* gives [0,1],[2,3],[4,5],[6,9].
C2_SplitRanges ==
    /\ Planned =>
          /\ Len(ranges) = numRoutines
          /\ \A k \in 1..numRoutines :
                LET blockSize == contentLength \div numRoutines
                    i == k - 1
                IN  ranges[k] =
                        IF i < numRoutines - 1
                        THEN <<i * blockSize, (i + 1) * blockSize - 1>>
                        ELSE <<(numRoutines - 1) * blockSize,
                               contentLength - 1>>
    /\ Split(1000, 3) = << <<0, 332>>, <<333, 665>>, <<666, 999>> >>
    /\ Split(10, 4) = << <<0, 1>>, <<2, 3>>, <<4, 5>>, <<6, 9>> >>

\* C2's case: more workers than bytes, and still one range per worker.
C2_Witness ==
    /\ Planned
    /\ contentLength = 2 /\ numRoutines = 5
    /\ ranges = << <<0, -1>>, <<0, -1>>, <<0, -1>>, <<0, -1>>, <<0, 1>> >>

\* C3: when workerCount divides totalLength, every range Split returns has
\* the length totalLength / workerCount; (900,3) gives [0,299],[300,599],
\* [600,899].
C3_EvenSplit ==
    /\ (Planned /\ contentLength % numRoutines = 0) =>
          \A k \in 1..Len(ranges) :
              ranges[k][2] - ranges[k][1] + 1 = contentLength \div numRoutines
    /\ Split(900, 3) = << <<0, 299>>, <<300, 599>>, <<600, 899>> >>

\* C3's case: a positive length that the worker count divides.
C3_Witness ==
    /\ Planned
    /\ contentLength = 12 /\ numRoutines = 4
    /\ ranges = << <<0, 2>>, <<3, 5>>, <<6, 8>>, <<9, 11>> >>


\* No response of a range task has a non-success status (and no log.Fatalf
\* has fired: the process is not "fatal").
NoFailure ==
    /\ proc \notin {"fatal", "panic"}
    /\ \A t \in RangeTasks : resp[t].status \in {0, 200, 206}

\* Download has returned from the multi-range branch (line 110).
MultiReturned == acceptRanges /\ pc = "returned"

\* The number of values sent on `success` by tasks 1..n.
RECURSIVE SumSent(_)
SumSent(n) == IF n = 0 THEN 0 ELSE sent[n] + SumSent(n - 1)

TotalSent == SumSent(MaxWorkers)

\* C4: for every totalLength >= 0 and workerCount >= 1, and every
\* interleaving, when Download returns from a multi-range run in which no
\* fetch and no write failed, the destination file holds exactly the
\* resource's bytes: same length, same byte at every offset.
C4_FileIsResource ==
    (MultiReturned /\ contentLength >= 0 /\ numRoutines >= 1 /\ NoFailure)
        => file = resource

\* C4's case: two ranges of a 3-byte resource, written and joined.
C4_Witness ==
    /\ MultiReturned /\ NoFailure
    /\ numRoutines = 2 /\ Len(resource) = 3 /\ contentLength = 3
    /\ writes = {<<1, 0, 1>>, <<2, 1, 2>>}
    /\ file = resource

\* C5: Download does not get past wg.Wait() while a launched task is still
\* running: once it has, every range has its task, and every task has
\* fetched, written, sent its signal and ended.
C5_ReturnsAfterAllTasks ==
    (acceptRanges /\ pc \in {"close", "returned"}) =>
        /\ launched = numRoutines
        /\ \A t \in 1..launched :
              /\ tpc[t] = "end"
              /\ resp[t].status # 0
              /\ \E w \in writes : w[1] = t
              /\ sent[t] = 1

\* C5's case: Download has returned after two tasks.
C5_Witness ==
    /\ MultiReturned /\ launched = 2
    /\ \A t \in 1..2 : tpc[t] = "end"

\* C6 as stated: at the end of every run every launched task has sent
\* exactly one signal, whatever the outcome of its fetch and write, and so
\* exactly workerCount signals were sent.
C6_OneSignalWhateverOutcome ==
    /\ \A t \in RangeTasks :
          (proc # "running" /\ tpc[t] # "idle") => sent[t] = 1
    /\ (proc # "running" /\ planned = 1) => TotalSent = numRoutines

\* C6 amended: a task sends exactly one signal when its save2file has
\* returned, whatever the status of its response, and none before; so
\* exactly workerCount signals have been sent when Download gets past
\* wg.Wait().  A task whose fetch or write error is fatal (log.Fatalf) has
\* sent none: the process exits there.
C6_OneSignalPerFinishedTask ==
    /\ \A t \in RangeTasks :
          /\ sent[t] = IF tpc[t] \in {"wgdone", "end"} THEN 1 ELSE 0
          /\ (proc = "fatal" /\ fatalBy = t) => sent[t] = 0
    /\ (acceptRanges /\ pc \in {"close", "returned"})
          => TotalSent = numRoutines

\* C6's case: a task whose response had a non-success status has sent its
\* signal, and Download has returned.
C6_Witness ==
    /\ MultiReturned
    /\ \E t \in RangeTasks : resp[t].status = 500 /\ sent[t] = 1

\* The probe has reported no byte-range support.
NoRangeSupport == pc # "head" /\ srvAcceptRanges # <<"bytes">>

\* C7: when the probe reports no byte-range support, Download takes the
\* single-stream path for every requested workerCount: one unranged GET,
\* the whole body written from offset 0, no call of the planner, no range
\* task, no progress signal.
C7_SingleStream ==
    NoRangeSupport =>
        /\ planned = 0 /\ launched = 0 /\ wg = 0
        /\ \A t \in RangeTasks : tpc[t] = "idle" /\ sent[t] = 0
        /\ chanBuf = 0 /\ ppc = "idle" /\ emitted = <<>>
        /\ unrangedGets <= 1
        /\ \A w \in writes : w[1] = 0 /\ w[2] = 0
        /\ pc = "returned" =>
              /\ unrangedGets = 1
              /\ writes = {<<0, 0, Len(resp[0].body)>>}
              /\ file = resp[0].body

\* C7's case: the server names another unit than bytes, -n is 2, and the
\* single stream has written the 3 bytes.
C7_Witness ==
    /\ pc = "returned" /\ srvAcceptRanges = <<"none">> /\ numThreads = 2
    /\ Len(resource) = 3 /\ file = resource /\ unrangedGets = 1

\* C8: the percentages emitted never decrease, whatever the order in which
\* the signals arrive; the k-th signal consumed emits k/workerCount*100,
\* and the loop emits 100 exactly when it has consumed workerCount signals.
C8_ProgressMonotone ==
    /\ \A i, j \in 1..Len(emitted) :
          i < j => emitted[i].num * emitted[j].den
                        <= emitted[j].num * emitted[i].den
    /\ \A i \in 1..Len(emitted) :
          emitted[i].at = "loop" =>
              /\ emitted[i].count = i - 1
              /\ emitted[i].num * numRoutines
                    = emitted[i].count * 100 * emitted[i].den
              /\ (emitted[i].num = 100 * emitted[i].den)
                    <=> (emitted[i].count = numRoutines)
    /\ Len(emitted) > 0 => emitted[1].at = "first"
    /\ Cardinality({i \in 1..Len(emitted) : emitted[i].at = "loop"})
          = countSuccess

\* C8's case: both signals of a run of two tasks consumed, 50 and 100
\* emitted, then the final snapshot.
C8_Witness ==
    /\ ppc = "done" /\ numRoutines = 2 /\ Len(emitted) = 4
    /\ emitted[2].num = 100 /\ emitted[2].den = 2
    /\ emitted[3].num = 200 /\ emitted[3].den = 2

\* C9: no multi-range run without failures ends (main returns, the process
\* exits) with the final 100% snapshot not emitted: by then the progress
\* goroutine has consumed all workerCount signals, printed line 103 and
\* ended.
C9_FinalSnapshotBeforeExit ==
    (proc = "exit0" /\ acceptRanges /\ NoFailure) =>
        /\ countSuccess = numRoutines
        /\ ppc = "done"
        /\ emitted # <<>> /\ emitted[Len(emitted)].at = "final"

\* The offsets of a write <<task, offset, length>>.
WrittenOffsets(w) == w[2]..(w[2] + w[3] - 1)

\* C10: for every totalLength >= 0 and workerCount >= 1 the intervals the
\* tasks write, [start, start+len(body)), are pairwise disjoint: no offset
\* is written by two tasks.
C10_WritesDisjoint ==
    (contentLength >= 0 /\ numRoutines >= 1) =>
        \A w1, w2 \in writes :
            w1[1] # w2[1] => WrittenOffsets(w1) \cap WrittenOffsets(w2) = {}


\* C10 again, for the runs in which every response has a success status:
\* the overlap needs no failed fetch (a 200 with the whole resource answers
\* the request of an empty range).
C10_WritesDisjointOnSuccess ==
    (contentLength >= 0 /\ numRoutines >= 1 /\ NoFailure) =>
        \A w1, w2 \in writes :
            w1[1] # w2[1] => WrittenOffsets(w1) \cap WrittenOffsets(w2) = {}


\* C11: a fetch, ranged or unranged, whose response has a non-success
\* status is a failure: the body of such a response is never written into
\* the destination file.
C11_NonSuccessBodyNotWritten ==
    \A w \in writes : Success(resp[w[1]])

\* The range of task t is empty: start > end.
Degenerate(t) == tpc[t] # "idle" /\ req[t][1] > req[t][2]

\* C12: a task whose range is empty (start > end, as Split makes them when
\* totalLength = 0 or workerCount > totalLength) does nothing: it sends no
\* range request, writes no byte and does not fail.
C12_DegenerateRangeIsNoOp ==
    \A t \in RangeTasks :
        (contentLength >= 0 /\ Degenerate(t)) =>
            /\ resp[t].status = 0
            /\ \A w \in writes : w[1] = t => w[3] = 0
            /\ fatalBy # t

\* C13: a worker count <= 0 or a probed content length <= 0 is found
\* before the launch and ends the run: with such inputs Split is never
\* called and no fetch task is started.
C13_InvalidInputRejected ==
    (acceptRanges /\ (numRoutines <= 0 \/ contentLength <= 0)) =>
        /\ planned = 0
        /\ launched = 0
        /\ \A t \in RangeTasks : tpc[t] = "idle"


\* C13 again, for a valid worker count: a probed length <= 0 alone does not
\* stop the launch either.
C13_NonPositiveLengthRejected ==
    (acceptRanges /\ numRoutines >= 1 /\ contentLength <= 0) =>
        planned = 0 /\ launched = 0


\* The HEAD request of line 41 has failed (log.Fatal of line 43).
ProbeFailed == fatalAt = 43

\* C14: when the HEAD request fails the run ends in NewDownloader, before
\* any download work: the destination file is never created, Split is
\* never called and no GET request is ever sent.
C14_ProbeFailureAborts ==
    ProbeFailed =>
        /\ proc = "fatal" /\ pc = "head"
        /\ ~fileExists /\ file = <<>> /\ writes = {}
        /\ planned = 0 /\ launched = 0
        /\ unrangedGets = 0
        /\ \A t \in Tasks : tpc[t] = "idle" /\ resp[t].status = 0

\* C14's case: the probe of a 3-byte resource, asked for with -n 2, failed.
C14_Witness ==
    /\ ProbeFailed /\ proc = "fatal" /\ fatalBy = 0
    /\ numThreads = 2 /\ Len(resource) = 3

\* A range task's request, open, seek, body read or write has failed.
TaskFailed ==
    fatalBy \in RangeTasks /\ fatalAt \in {140, 151, 155, 161, 165}

\* C15: a single task's fetch failure (request or body read error) or
\* write failure (open, seek or write error) is fatal to the whole run:
\* the process has exited, Download has not got past wg.Wait(), and from
\* then on nothing moves: no sibling takes a step and no further byte is
\* written.
C15_TaskFailureIsFatal ==
    /\ [](TaskFailed => (proc = "fatal" /\ pc \notin {"close", "returned"}))
    /\ [][TaskFailed => UNCHANGED vars]_vars

\* C15's case: task 1 has failed while task 2 was still to write its range.
C15_Witness ==
    /\ TaskFailed /\ fatalBy = 1 /\ proc = "fatal"
    /\ numRoutines = 2 /\ tpc[2] \in {"do", "open", "seek", "read", "write"}
    /\ \A w \in writes : w[1] # 2


\* The offset task t is to write at: the start of its own range (0 for the
\* single stream).
OwnStart(t) == IF t = 0 THEN 0 ELSE ranges[t][1]

\* This step is the f.Write of task t.
WriteStep(t) == tpc[t] = "write" /\ tpc'[t] \in {"send", "saved"}

\* C16: in every interleaving of the tasks' opens, seeks and writes, the
\* write of a task changes exactly the bytes of [offset, offset+len(bytes))
\* with offset the start of the task's own range, and no byte outside; the
\* seek of one task never moves the offset at which another one writes.
C16_WriteFrame ==
    /\ [](\A t \in Tasks : tpc[t] \in {"read", "write"} => pos[t] = OwnStart(t))
    /\ [][\A t \in Tasks :
            (tpc[t] = "seek" /\ tpc'[t] = "read") =>
                \A u \in Tasks \ {t} : pos'[u] = pos[u]]_vars
    /\ [][\A t \in Tasks :
            WriteStep(t) =>
                LET off == OwnStart(t)
                    n == Len(resp[t].body)
                IN  /\ Len(file') = IF n = 0 THEN Len(file)
                                    ELSE Max(Len(file), off + n)
                    /\ \A i \in 1..n : file'[off + i] = resp[t].body[i]
                    /\ \A i \in 1..Len(file') :
                          (i <= off \/ i > off + n) =>
                              file'[i] = IF i <= Len(file) THEN file[i] ELSE 0
                    /\ writes' = writes \cup {<<t, off, n>>}]_vars
    /\ [][(\A t \in Tasks : ~WriteStep(t)) => file' = file]_vars

\* C16's case: of two tasks with their handles at offsets 0 and 1, the
\* second has written its two bytes past the end of the empty file, and the
\* first is still to write at offset 0.
C16_Witness ==
    /\ numRoutines = 2 /\ Len(resource) = 3
    /\ tpc[1] = "write" /\ pos[1] = 0
    /\ writes = {<<2, 1, 2>>} /\ pos[2] = 3
    /\ file = <<0, 2, 3>>


\* C17: the progress goroutine never blocks a task: the values not yet
\* consumed never exceed the capacity workerCount of the channel, so the
\* send of a task that has reached it can always be done at once, also
\* when the progress goroutine has not started or never runs.
C17_SendNeverBlocks ==
    /\ numRoutines >= 1 => (chanBuf <= numRoutines /\ chanBuf >= 0)
    /\ \A t \in RangeTasks :
          (proc = "running" /\ tpc[t] = "send") =>
              /\ chanBuf < numRoutines
              /\ ~chanClosed
              /\ ENABLED TaskSend(t)

\* C17's case: the progress goroutine is not started yet, one value waits
\* in the buffer and the second task is about to send.
C17_Witness ==
    /\ numRoutines = 2 /\ ppc = "idle" /\ pc = "launch"
    /\ chanBuf = 1 /\ sent[1] = 1 /\ tpc[2] = "send"


\* The scheduler runs every goroutine that can take a step: the main
\* goroutine and each range task.  Nothing is assumed of the progress
\* goroutine.
FairSpec ==
    /\ Spec
    /\ WF_vars(MainStep)
    /\ \A t \in RangeTasks : WF_vars(TaskStep(t))

\* C18: under fair scheduling, when the fetch and the write of every
\* launched task complete (no log.Fatalf ends the process), Download
\* returns: the tasks, the WaitGroup and the channel never block each
\* other, for any workerCount >= 1.
C18_DownloadReturns ==
    (acceptRanges /\ pc = "launch" /\ proc = "running")
        ~> (pc = "returned" \/ proc = "fatal")

\* C18's case: Download has returned from a run of two tasks whose signals
\* the progress goroutine has not begun to consume.
C18_Witness ==
    /\ MultiReturned /\ numRoutines = 2 /\ launched = 2
    /\ ppc = "print0" /\ chanBuf = 2 /\ chanClosed


\* C19: `success` is closed only when every launched task has sent its
\* signal (the send precedes wg.Done, the close follows wg.Wait): no task
\* ever sends on the closed channel.
C19_CloseAfterAllSends ==
    /\ chanClosed =>
          /\ launched = numRoutines /\ numRoutines >= 1
          /\ \A t \in 1..launched : sent[t] = 1 /\ tpc[t] = "end"
    /\ \A t \in RangeTasks : ~(tpc[t] = "send" /\ chanClosed)
    /\ proc = "panic" => pc \in {"makechan", "split"}

\* C19's case: the channel is closed after the two sends.
C19_Witness ==
    /\ chanClosed /\ launched = 2
    /\ sent[1] = 1 /\ sent[2] = 1

\* C20: the progress goroutine never counts more than workerCount signals
\* (as many are sent as Split returned ranges), so the percentage never
\* exceeds 100 and the padding of the bar, 100 - floor(percentage), is
\* never negative.
C20_CountAtMostWorkers ==
    /\ TotalSent <= Len(ranges)
    /\ Len(ranges) = IF planned = 1 /\ numRoutines >= 1 THEN numRoutines ELSE 0
    /\ countSuccess + chanBuf = TotalSent
    /\ countSuccess <= numRoutines \/ ppc = "idle"
    /\ \A i \in 1..Len(emitted) :
          /\ emitted[i].num <= 100 * emitted[i].den
          /\ emitted[i].bar >= 0
          /\ 100 - emitted[i].bar >= 0
          /\ emitted[i].at = "loop" =>
                emitted[i].bar * numRoutines <= emitted[i].count * 100

\* C20's case: the last of two signals has been counted: 100, no padding.
C20_Witness ==
    /\ numRoutines = 2 /\ countSuccess = 2 /\ ppc = "loop"
    /\ emitted[3].at = "loop" /\ emitted[3].bar = 100

====
